---------------------------- MODULE Spec2Model ----------------------------
(***************************************************************************)
(* A model of the review banner carousel (assets/review-banner-carousel.js)*)
(* for one carousel element: the instance's state and configuration, the   *)
(* subscriptions it holds, the browser's list of animation frame callbacks *)
(* and of timers, and the module's instance registry; and of the sticky    *)
(* header (assets/header-hero-header.js) of the same page.                 *)
(*                                                                         *)
(* Each handler of the class is an operator from a world record to a world *)
(* record, translated statement by statement; each action applies one      *)
(* handler to the current world, as the browser runs one task at a time.   *)
(*                                                                         *)
(* Numbers.  Pointer coordinates and widths are whole pixels.  The offset, *)
(* the velocity and the momentum are JavaScript doubles in the source; the *)
(* model keeps them in fixed point, MilliPx units per pixel, and rounds    *)
(* products towards zero.  Frame times are elapsed milliseconds            *)
(* (timestamp - lastTimestamp), drawn by the frame action.                 *)
(***************************************************************************)
EXTENDS Integers, Sequences, FiniteSets, TLC

VARIABLES
  state,      \* this.state of the instance
  config,     \* this.config of the instance
  dom,        \* the element's classes, the track's transform and clone groups
  subs,       \* listeners and observers the instance has registered
  raf,        \* the browser's pending animation frame callbacks, in order
  timers,     \* the browser's pending timers and the suspended init() calls
  env,        \* the page: visibility, media query, layout, data attributes
  instances,  \* the registry: TRUE iff the element is mapped to the instance
  life,       \* "absent", "live" or "destroyed" (destroy() has been called)
  signals,    \* the signals and analytics events of the task that ran last
  header      \* the sticky header: its geometry, its flags and its rafId

carousel == <<state, config, dom, subs, raf, timers, env, instances, life, signals>>

vars == <<carousel, header>>

----------------------------------------------------------------------------
(* Bounds of the model *)

MilliPx == 1000
MaxPointerX == 80
MaxInits == 2
MaxDrags == 2
OffsetCap == 600
MaxMomentumFrames == 100
MaxPending == 3
MaxLoads == 2
MaxSlides == 3
SlowSpeed == 10000
NumImages == 2
MaxScroll == 8
HeaderHeight == 2
MaxHeaderHeight == 3
HeroPageTop == 2
HeroHeight == 4

(* Constants of the program *)

DragThreshold == 50
FrictionPct == 95
FrameRateFloor == 30
CloneCount == 3
DefaultSpeed == 60
DefaultGap == 24
DefaultGapMobile == 16
DesktopBreakpoint == 750

Null == 0

----------------------------------------------------------------------------
(* Utilities *)

Abs(x) == IF x < 0 THEN -x ELSE x

Sign(x) == IF x < 0 THEN -1 ELSE IF x > 0 THEN 1 ELSE 0

Max(a, b) == IF a >= b THEN a ELSE b

Min(a, b) == IF a <= b THEN a ELSE b

clamp(value, min, max) == Max(min, Min(max, value))

\* a * num / den on a fixed-point magnitude, rounded towards zero
Scale(a, num, den) == Sign(a) * ((Abs(a) * num) \div den)

\* the signals and analytics events a task has produced so far
emit(w, name) == [w EXCEPT !.signals = Append(@, name)]

----------------------------------------------------------------------------
(* Configuration *)

\* parseInt(attr) || default: an absent attribute and a zero both give the default
intAttr(v, default) == IF v = 0 THEN default ELSE v

parseConfig(e) ==
  [ speed         |-> intAttr(e.attrs.scrollSpeed, DefaultSpeed),
    direction     |-> e.attrs.direction,
    pauseOnHover  |-> e.attrs.pauseOnHover,
    autoplay      |-> e.attrs.autoplay,
    gap           |-> intAttr(e.attrs.gap, DefaultGap),
    gapMobile     |-> intAttr(e.attrs.gapMobile, DefaultGapMobile),
    dragEnabled   |-> e.attrs.dragEnabled,
    keyboardEnabled |-> e.attrs.keyboardEnabled,
    imageStrategy |-> e.attrs.imageStrategy,
    reducedMotion |-> e.mediaReduced ]

\* window.innerWidth >= 750 ? this.config.gap : this.config.gapMobile
activeGap(w) ==
  IF w.env.innerWidth >= DesktopBreakpoint THEN w.config.gap ELSE w.config.gapMobile

\* baseWidth + the active gap, in fixed point
wrapPoint(w) == (w.state.baseWidth + activeGap(w)) * MilliPx

----------------------------------------------------------------------------
(* The animation engine *)

updateTransform(w) ==
  [w EXCEPT !.dom.transform = [set |-> TRUE, x |-> w.state.offset]]

wrapOffset(w) ==
  IF w.config.direction = "left"
    THEN IF w.state.offset <= -wrapPoint(w)
           THEN [w EXCEPT !.state.offset = @ + wrapPoint(w)]
           ELSE w
    ELSE IF w.state.offset >= wrapPoint(w)
           THEN [w EXCEPT !.state.offset = @ - wrapPoint(w)]
           ELSE w

\* requestAnimationFrame hands out ids that are never reused; the model takes
\* the least id that no pending callback and no stored handle carries
newFrameId(w) ==
  LET used == {w.raf[i].id : i \in 1..Len(w.raf)} \cup {w.state.animationId}
  IN CHOOSE i \in 1..(Len(w.raf) + 2) :
       i \notin used /\ \A j \in 1..(i - 1) : j \in used

requestFrame(w, cb) == [w EXCEPT !.raf = Append(@, cb)]

cancelFrame(w, id) ==
  [w EXCEPT !.raf = SelectSeq(@, LAMBDA cb : cb.id # id)]

\* velocity * deltaTime, deltaTime = min(elapsed / 1000, 1 / 30)
frameStep(velocity, elapsed) ==
  Scale(velocity, Min(elapsed * FrameRateFloor, 1000), 1000 * FrameRateFloor)

directionalVelocity(w) ==
  LET direction     == IF w.config.direction = "left" THEN -1 ELSE 1
      rtlMultiplier == IF w.env.dir = "rtl" THEN -1 ELSE 1
  IN direction * rtlMultiplier * w.state.velocity

animate(w, elapsed) ==
  IF ~w.state.playing THEN w
  ELSE LET w1 == [w EXCEPT !.state.offset =
                              @ + frameStep(directionalVelocity(w), elapsed)]
           w2 == updateTransform(wrapOffset(w1))
           id == newFrameId(w2)
       IN [requestFrame(w2, [kind |-> "animate", id |-> id, m |-> 0, prev |-> 0, n |-> 0])
             EXCEPT !.state.animationId = id]

play(w) ==
  IF ~w.state.initialized \/ w.state.playing \/ w.config.reducedMotion THEN w
  ELSE LET w1 == animate([w EXCEPT !.state.playing = TRUE], 0)
           w2 == [w1 EXCEPT !.dom.classes = @ \ {"is-paused"}]
       IN emit(w2, "play")

\* pause() that forgets cancelAnimationFrame
pauseWithoutCancel(w) ==
  IF ~w.state.playing THEN w
  ELSE emit([w EXCEPT !.state.playing = FALSE,
                      !.state.animationId = Null,
                      !.dom.classes = @ \cup {"is-paused"}], "pause")

pause(w) ==
  IF ~w.state.playing THEN w
  ELSE LET w1 == [w EXCEPT !.state.playing = FALSE]
           w2 == IF w1.state.animationId # Null
                   THEN [cancelFrame(w1, w1.state.animationId)
                           EXCEPT !.state.animationId = Null]
                   ELSE w1
           w3 == [w2 EXCEPT !.dom.classes = @ \cup {"is-paused"}]
       IN emit(w3, "pause")

resume(w) ==
  IF ~w.config.autoplay \/ w.state.playing \/ ~w.state.visible
       \/ w.config.reducedMotion
    THEN w
    ELSE play(w)

----------------------------------------------------------------------------
(* Measurement and clones *)

\* the sum of the slides' widths and of the gaps between them, in pixels
totalWidth(w) ==
  IF w.state.slides = 0 THEN 0
  ELSE w.state.slides * w.env.slideWidth + (w.state.slides - 1) * activeGap(w)

\* the frame callback that measureDimensions() schedules
measureCallback(w) ==
  LET base == totalWidth(w)
      w1   == [w EXCEPT !.state.baseWidth = base,
                        !.state.velocity  = (base * MilliPx) \div Max(1, w.config.speed)]
  IN updateTransform(w1)

measureDimensions(w) ==
  requestFrame(w, [kind |-> "measure", id |-> Null, m |-> 0, prev |-> 0, n |-> 0])

\* every group of state.clones leaves the track (the track holds no other clone
\* group: each one appended was pushed to state.clones), then cloneCount groups
\* are appended unless there is no slide
createClones(w) ==
  LET w1 == [w EXCEPT !.dom.attached = 0, !.state.clones = 0]
  IN IF w1.state.slides = 0 THEN w1
     ELSE [w1 EXCEPT !.dom.attached = w.state.cloneCount,
                     !.state.clones = w.state.cloneCount]

\* track.innerHTML = '' empties the track; the slides are the content's children
setupStructure(w) ==
  [w EXCEPT !.dom.attached = 0, !.state.slides = w.env.children]

----------------------------------------------------------------------------
(* Pointer drag and momentum *)

\* momentumAnimation without the friction factor
momentumWithoutFriction(w, m, n) ==
  IF Abs(m) < MilliPx \div 10 THEN w
  ELSE LET w1 == updateTransform([w EXCEPT !.state.offset = @ + m])
       IN requestFrame(w1, [kind |-> "momentum", id |-> Null,
                            m |-> m, prev |-> m, n |-> n + 1])

\* one call of the momentumAnimation closure, whose variable momentum is m;
\* n counts the calls of this closure that moved the offset
momentumAnimation(w, m, n) ==
  IF Abs(m) < MilliPx \div 10 THEN w
  ELSE LET w1 == updateTransform([w EXCEPT !.state.offset = @ + m])
       IN requestFrame(w1, [kind |-> "momentum", id |-> Null,
                            m |-> Scale(m, FrictionPct, 100), prev |-> m, n |-> n + 1])

addMomentum(w) ==
  LET dragVelocity == Scale((w.state.lastX - w.state.startX) * MilliPx, 1, 10)
  IN momentumAnimation(w, dragVelocity, 0)

\* onInteractive: the pointer went down on a link or a button of the element
handlePointerDown(w, x, onInteractive) ==
  IF ~w.config.dragEnabled \/ onInteractive THEN w
  ELSE LET w1 == pause([w EXCEPT !.state.dragging = TRUE])
           w2 == [w1 EXCEPT !.state.startX = x,
                            !.state.lastX  = x,
                            !.dom.classes  = @ \cup {"rbc-dragging"}]
       IN emit(w2, "drag_start")

\* the body that throttle() guards
pointerMoveBody(w, x) ==
  IF ~w.state.dragging THEN w
  ELSE LET deltaX == x - w.state.lastX
           w1     == updateTransform([w EXCEPT !.state.offset = @ + deltaX * MilliPx])
       IN [w1 EXCEPT !.state.lastX = x]

\* throttle(handlePointerMove, 16): a call inside the window is dropped
handlePointerMove(w, x) ==
  IF w.timers.inThrottle THEN w
  ELSE [pointerMoveBody(w, x) EXCEPT !.timers.inThrottle = TRUE]

\* handlePointerUp that adds momentum from the threshold on (>= for >)
handlePointerUpFromThreshold(w) ==
  IF ~w.state.dragging THEN w
  ELSE LET w1 == [w EXCEPT !.state.dragging = FALSE,
                           !.dom.classes = @ \ {"rbc-dragging"}]
           dragDistance == Abs(w1.state.lastX - w1.state.startX)
           w2 == IF dragDistance >= DragThreshold THEN addMomentum(w1) ELSE w1
           w3 == [w2 EXCEPT !.timers.resume = @ + 1]
       IN emit(w3, "drag_end")

handlePointerUp(w) ==
  IF ~w.state.dragging THEN w
  ELSE LET w1 == [w EXCEPT !.state.dragging = FALSE,
                           !.dom.classes = @ \ {"rbc-dragging"}]
           dragDistance == Abs(w1.state.lastX - w1.state.startX)
           w2 == IF dragDistance > DragThreshold THEN addMomentum(w1) ELSE w1
           w3 == [w2 EXCEPT !.timers.resume = @ + 1]
       IN emit(w3, "drag_end")

\* the 100 ms timer that handlePointerUp sets
resumeTimeout(w) ==
  IF w.config.autoplay /\ w.state.visible THEN resume(w) ELSE w

----------------------------------------------------------------------------
(* Keyboard and control navigation *)

\* direction is a number (type "number") or 'prev' or 'next' (type "string");
\* focusSlide() and announceSlide() move the focus and leave the index alone
navigateTo(w, direction) ==
  LET targetIndex ==
        IF direction.type = "number" THEN direction.value
        ELSE IF direction.value = "prev" THEN w.state.currentSlideIndex - 1
        ELSE w.state.currentSlideIndex + 1
      clamped == clamp(targetIndex, 0, w.state.slides - 1)
  IN IF clamped # w.state.currentSlideIndex
       THEN [w EXCEPT !.state.currentSlideIndex = clamped]
       ELSE w

handleKeyDown(w, key) ==
  IF ~w.config.keyboardEnabled THEN w
  ELSE CASE key = "ArrowLeft"  -> navigateTo(w, [type |-> "string", value |-> "prev"])
         [] key = "ArrowRight" -> navigateTo(w, [type |-> "string", value |-> "next"])
         [] key = " "          -> IF w.state.playing THEN pause(w) ELSE resume(w)
         [] key = "Home"       -> navigateTo(w, [type |-> "number", value |-> 0])
         [] key = "End"        ->
              navigateTo(w, [type |-> "number", value |-> w.state.slides - 1])
         [] OTHER              -> w

----------------------------------------------------------------------------
(* Subscriptions *)

\* addEventListener keeps one copy of a bound method (pointer and visibility
\* handlers) and one more copy of every closure created anew (hover, media)
setupInteractions(w) ==
  [w EXCEPT !.subs.hover    = IF w.config.pauseOnHover THEN @ + 1 ELSE @,
            !.subs.pointer  = @ \/ w.config.dragEnabled,
            !.subs.keydown  = @ \/ w.config.keyboardEnabled,
            !.subs.doc      = TRUE,
            !.subs.media    = @ + 1,
            !.subs.controls = IF w.env.controls THEN @ + 1 ELSE @]

\* the three observers are created together and stored in this.observers; the
\* ones stored before are dropped, connected or not
setupObservers(w) ==
  [w EXCEPT !.subs.leaked    = IF w.subs.observers = "connected" THEN @ + 1 ELSE @,
            !.subs.observers = "connected"]

\* the intersection observer's callback, for one entry
handleIntersection(w, isIntersecting) ==
  LET w1 == [w EXCEPT !.state.visible = isIntersecting]
  IN IF isIntersecting /\ w1.config.autoplay /\ ~w1.config.reducedMotion
       THEN resume(w1)
       ELSE pause(w1)

handleVisibilityChange(w) ==
  IF w.env.hidden THEN pause(w)
  ELSE IF w.config.autoplay /\ w.state.visible THEN resume(w)
  ELSE w

\* the body that debounce() delays by 250 ms
handleResize(w) ==
  IF ~w.state.initialized THEN w
  ELSE LET w1 == createClones(measureDimensions(w))
       IN IF w1.state.playing THEN play(w1) ELSE w1

\* the change listener without its pause() and play() calls
handleMotionChangeClassOnly(w, matches) ==
  LET w1 == [w EXCEPT !.config.reducedMotion = matches]
  IN IF matches
       THEN [w1 EXCEPT !.dom.classes = @ \cup {"rbc-static-mode"}]
       ELSE [w1 EXCEPT !.dom.classes = @ \ {"rbc-static-mode"}]

\* the change listener of the reduced-motion media query
handleMotionChange(w, matches) ==
  LET w1 == [w EXCEPT !.config.reducedMotion = matches]
  IN IF matches
       THEN [pause(w1) EXCEPT !.dom.classes = @ \cup {"rbc-static-mode"}]
       ELSE LET w2 == [w1 EXCEPT !.dom.classes = @ \ {"rbc-static-mode"}]
            IN IF w2.config.autoplay THEN play(w2) ELSE w2

----------------------------------------------------------------------------
(* Lifecycle *)

\* the state object the constructor builds
newState(cfg) ==
  [ initialized   |-> FALSE,
    playing       |-> cfg.autoplay,
    visible       |-> FALSE,
    dragging      |-> FALSE,
    offset        |-> 0,
    velocity      |-> 0,
    baseWidth     |-> 0,
    cloneCount    |-> CloneCount,
    animationId   |-> Null,
    slides        |-> 0,
    clones        |-> 0,
    startX        |-> 0,
    lastX         |-> 0,
    currentSlideIndex |-> 0 ]

\* the images whose load waitForImages() awaits: with the eager strategy, the
\* content's images that are not complete
waitForImages(w) ==
  IF w.config.imageStrategy = "eager"
    THEN {i \in 1..Len(w.env.images) : w.env.images[i] = "loading"}
    ELSE {}

\* init() up to its await; timers.imageWaits holds the images whose promise is
\* unresolved (an init() that starts while another waits shares its images)
initStart(w) ==
  [w EXCEPT !.dom.classes = @ \cup {"rbc-initializing"},
            !.timers.initPending = @ + 1,
            !.timers.imageWaits = @ \cup waitForImages(w)]

\* the load or error listener of image i: clearTimeout and resolve
imageSettled(w, i) == [w EXCEPT !.timers.imageWaits = @ \ {i}]

\* a 3000 ms timer that resolves nothing
imageTimeoutLost(w, i) == w

\* the 3000 ms timer of image i: resolve
imageTimeout(w, i) == [w EXCEPT !.timers.imageWaits = @ \ {i}]

\* init() after its await, when no step throws
initContinue(w) ==
  LET w1 == setupObservers(setupInteractions(
              createClones(measureDimensions(setupStructure(w)))))
      w2 == [w1 EXCEPT !.state.initialized = TRUE,
                       !.dom.classes = (@ \ {"rbc-initializing"}) \cup {"rbc-ready"},
                       !.timers.initPending = @ - 1]
      \* v: the world w2, computed once
      w3 == CHOOSE r \in {IF v.config.autoplay /\ ~v.config.reducedMotion
                             THEN play(v) ELSE v : v \in {w2}} : TRUE
  IN emit(emit(w3, "ready"), "init")

handleError(w) ==
  [emit(w, "error") EXCEPT !.dom.classes = @ \cup {"rbc-error"}]

\* init() after its await, when the step named throws: the steps before it
\* have run, the catch block calls handleError()
initFail(w, step) ==
  LET w1 == CASE step = "setupStructure" -> w
              [] step = "setupObservers" ->
                   setupInteractions(createClones(measureDimensions(setupStructure(w))))
              [] step = "loadImages" ->
                   setupObservers(setupInteractions(
                     createClones(measureDimensions(setupStructure(w)))))
  IN handleError([w1 EXCEPT !.timers.initPending = @ - 1])

destroy(w, removeListeners) ==
  LET w1 == pause(w)
      w2 == [w1 EXCEPT !.subs.observers =
                          IF @ = "connected" THEN "disconnected" ELSE @]
      w3 == IF removeListeners THEN [w2 EXCEPT !.subs.doc = FALSE] ELSE w2
      w4 == [w3 EXCEPT !.dom.classes =
                          @ \ {"rbc-ready", "is-paused", "rbc-dragging", "rbc-static-mode"},
                       !.dom.transform = [set |-> FALSE, x |-> 0],
                       !.dom.attached = 0]
  IN emit(w4, "destroy")

\* reinitialize() that sets no timer
reinitializeWithoutInit(w) ==
  destroy(w, FALSE)

reinitialize(w) ==
  [destroy(w, FALSE) EXCEPT !.timers.reinit = @ + 1]

\* the 100 ms timer of reinitialize(): it calls init()
reinitTimeout(w) ==
  initStart([w EXCEPT !.timers.reinit = @ - 1])

updateConfig(w, newConfig) ==
  reinitialize([w EXCEPT !.config = [k \in DOMAIN @ |->
                   IF k \in DOMAIN newConfig THEN newConfig[k] ELSE @[k]]])

\* new AdvancedReviewCarousel(element): without the track or the content block
\* the constructor returns before it sets this.config and this.state;
\* env.constructed counts the instances constructed for the element
construct(w) ==
  LET cfg == parseConfig(w.env)
      w1  == [w EXCEPT !.env.constructed = @ + 1]
  IN IF ~w.env.markup THEN w1
     ELSE initStart([w1 EXCEPT !.config = cfg, !.state = newState(cfg)])

\* the instance of an element without its markup: this.state and this.config
\* are undefined, and the model's state and config stand for nothing
inert(w) == w.life # "absent" /\ ~w.env.markup

\* a TypeError (a property read of undefined) leaves the running task and
\* reaches its caller, the host page or the browser's event dispatch
raise(w) == emit(w, "TypeError")

\* initCarousel without the registry lookup
initCarouselAnew(w) ==
  [construct(w) EXCEPT !.instances = TRUE, !.life = "live"]

initCarousel(w) ==
  IF w.instances THEN w
  ELSE [construct(w) EXCEPT !.instances = TRUE, !.life = "live"]

\* destroy() reads this.state.playing in its first statement, pause()
destroyCarousel(w) ==
  IF w.instances
    THEN IF inert(w) THEN raise(w)
         ELSE [destroy(w, TRUE) EXCEPT !.instances = FALSE, !.life = "destroyed"]
    ELSE w

\* the element matches '.rbc-carousel-wrapper:not(.rbc-ready)'
initAll(w) ==
  IF "rbc-ready" \in w.dom.classes THEN w ELSE initCarousel(w)

\* the element matches '.rbc-carousel-wrapper.rbc-ready'
destroyAll(w) ==
  IF "rbc-ready" \in w.dom.classes THEN destroyCarousel(w) ELSE w

\* the listener of shopify:section:select
sectionSelect(w) ==
  IF ~w.instances THEN w
  ELSE IF inert(w) THEN raise(w)
  ELSE pause(w)

\* the listener of shopify:section:deselect
sectionDeselect(w) ==
  IF ~w.instances THEN w
  ELSE IF inert(w) THEN raise(w)
  ELSE IF w.config.autoplay THEN resume(w)
  ELSE w

----------------------------------------------------------------------------
(* The browser *)

\* one display frame: the callbacks pending at its start run in order; the
\* ones they request wait for the next frame.  elapsed is the frame's
\* timestamp - lastTimestamp, which an animate callback resets
RECURSIVE runCallbacks(_, _, _)
runCallbacks(w, queue, elapsed) ==
  IF queue = <<>> THEN w
  ELSE LET cb == Head(queue)
       IN CASE cb.kind = "animate" ->
                 runCallbacks(animate(w, elapsed), Tail(queue),
                              IF w.state.playing THEN 0 ELSE elapsed)
            [] cb.kind = "momentum" ->
                 runCallbacks(momentumAnimation(w, cb.m, cb.n), Tail(queue), elapsed)
            [] cb.kind = "measure" ->
                 runCallbacks(measureCallback(w), Tail(queue), elapsed)

runFrame(w, elapsed) == runCallbacks([w EXCEPT !.raf = <<>>], w.raf, elapsed)

\* the closure that setupInteractions() registers for an event
listener(event, w) ==
  CASE event = "mouseenter" -> pause(w)
    [] event = "mouseleave" -> resume(w)
    [] event = "change"     -> handleMotionChange(w, w.env.mediaReduced)
    [] event = "prev"       -> navigateTo(w, [type |-> "string", value |-> "prev"])
    [] event = "next"       -> navigateTo(w, [type |-> "string", value |-> "next"])
    [] event = "play-pause" -> IF w.state.playing THEN pause(w) ELSE play(w)

\* an event reaches every copy of its listener, one after the other
RECURSIVE dispatch(_, _, _)
dispatch(event, copies, w) ==
  IF copies = 0 THEN w ELSE dispatch(event, copies - 1, listener(event, w))

----------------------------------------------------------------------------
(* The sticky header.  Lengths are rows of the viewport; the wrapper sticks  *)
(* to the viewport's top, the hero section scrolls with the page.            *)

\* the page's header before DOMContentLoaded; hero: the section exists
headerBefore(hero) ==
  [ loaded |-> FALSE, hero |-> hero, scrollY |-> 0, height |-> HeaderHeight,
    transparent |-> FALSE, solid |-> FALSE, overlap |-> FALSE, rafId |-> Null,
    pending |-> 0 ]

\* hero.getBoundingClientRect() and wrapper.getBoundingClientRect()
heroRect(h) == [top |-> HeroPageTop - h.scrollY,
                bottom |-> HeroPageTop - h.scrollY + HeroHeight]

headerRect(h) == [top |-> 0, bottom |-> h.height]

\* updateState with <= for < on the first comparison
updateStateTouching(h) ==
  LET overlapping == /\ h.hero
                     /\ heroRect(h).top <= headerRect(h).bottom
                     /\ heroRect(h).bottom > headerRect(h).top
  IN [h EXCEPT !.rafId = Null,
               !.transparent = overlapping,
               !.solid = ~overlapping,
               !.overlap = overlapping]

updateState(h) ==
  LET overlapping == /\ h.hero
                     /\ heroRect(h).top < headerRect(h).bottom
                     /\ heroRect(h).bottom > headerRect(h).top
  IN [h EXCEPT !.rafId = Null,
               !.transparent = overlapping,
               !.solid = ~overlapping,
               !.overlap = overlapping]

\* onScrollOrResize that requests no frame
onScrollOrResizeDropped(h) == h

\* the id that requestAnimationFrame returns is not zero; pending counts the
\* updateState callbacks the browser holds
onScrollOrResize(h) ==
  IF h.rafId = Null THEN [h EXCEPT !.rafId = 1, !.pending = @ + 1] ELSE h

----------------------------------------------------------------------------
(* The world and its tasks *)

World ==
  [ state |-> state, config |-> config, dom |-> dom, subs |-> subs, raf |-> raf,
    timers |-> timers, env |-> env, instances |-> instances, life |-> life,
    signals |-> <<>> ]

\* the task's world becomes the next state (v: the world, computed once)
Commit(w) ==
  \E v \in {w} :
    /\ state' = v.state
    /\ config' = v.config
    /\ dom' = v.dom
    /\ subs' = v.subs
    /\ raf' = v.raf
    /\ timers' = v.timers
    /\ env' = v.env
    /\ instances' = v.instances
    /\ life' = v.life
    /\ signals' = v.signals
    /\ UNCHANGED header

\* init() calls made so far or pending
initCalls(w) == w.subs.media + w.timers.initPending + w.timers.reinit

\* the model follows the offset within OffsetCap pixels of zero
withinCap(w) == Abs(w.state.offset) <= OffsetCap * MilliPx

\* some observer trio of the instance is connected
observing(w) == w.subs.observers = "connected" \/ w.subs.leaked > 0

PointerXs == {0, 30, MaxPointerX}

\* the element and its page: markup, the element holds its track and content
Element(attrs, dir, children, slideWidth, drags) ==
  [ hidden |-> FALSE, mediaReduced |-> FALSE, dir |-> dir,
    innerWidth |-> 1024, children |-> children, slideWidth |-> slideWidth,
    attrs |-> attrs, drags |-> drags, markup |-> TRUE, constructed |-> 0,
    loads |-> 0, images |-> <<>>, controls |-> TRUE ]

\* the page before the script runs on the element
Before(e) ==
     /\ env = e
     /\ config = parseConfig(e)
     /\ state = newState(parseConfig(e))
     /\ dom = [classes |-> {}, transform |-> [set |-> FALSE, x |-> 0], attached |-> 0]
     /\ subs = [hover |-> 0, pointer |-> FALSE, doc |-> FALSE, media |-> 0,
                observers |-> "none", leaked |-> 0, keydown |-> FALSE, controls |-> 0]
     /\ raf = <<>>
     /\ timers = [initPending |-> 0, reinit |-> 0, resume |-> 0, resize |-> FALSE,
                  inThrottle |-> FALSE, imageWaits |-> {}]
     /\ instances = FALSE
     /\ life = "absent"
     /\ signals = <<>>

Page(attrs, dir, children, slideWidth, drags) ==
  Before(Element(attrs, dir, children, slideWidth, drags))

Attrs(autoplay, hover, drag, direction) ==
  [ scrollSpeed |-> 1, direction |-> direction, pauseOnHover |-> hover,
    autoplay |-> autoplay, gap |-> 2, gapMobile |-> 0, dragEnabled |-> drag,
    keyboardEnabled |-> TRUE, imageStrategy |-> "lazy" ]

(* Tasks of the host page *)

InitCarousel ==
  /\ life = "absent" \/ instances
  /\ Commit(initCarousel(World))

DestroyCarousel ==
  /\ life # "absent"
  /\ Commit(destroyCarousel(World))

\* instance.destroy(), on a handle from getInstance() or from a signal's detail
InstanceDestroy ==
  /\ life # "absent"
  /\ Commit([destroy(World, TRUE) EXCEPT !.life = "destroyed"])

\* instance.play() followed at once by instance.pause()
PlayThenPause ==
  /\ life # "absent"
  /\ Commit(pause(play(World)))

UpdateConfig ==
  /\ life = "live"
  /\ initCalls(World) < MaxInits
  /\ Commit(updateConfig(World, <<>>))

(* Tasks of the browser *)

InitContinue ==
  /\ timers.initPending > 0
  /\ timers.imageWaits = {}
  /\ Commit(initContinue(World))

ReinitTimeout ==
  /\ timers.reinit > 0
  /\ Commit(reinitTimeout(World))

Frame(elapsed) ==
  /\ raf # <<>>
  /\ withinCap(runFrame(World, elapsed))
  /\ Commit(runFrame(World, elapsed))

\* mouseenter, or focusin
HoverEnter ==
  /\ subs.hover > 0
  /\ Commit(dispatch("mouseenter", subs.hover, World))

\* mouseleave, or focusout to outside the element
HoverLeave ==
  /\ subs.hover > 0
  /\ Commit(dispatch("mouseleave", subs.hover, World))

\* the tab is hidden or shown
VisibilityChange ==
  /\ env.hidden \in BOOLEAN
  /\ Commit(IF subs.doc
              THEN handleVisibilityChange([World EXCEPT !.env.hidden = ~@])
              ELSE [World EXCEPT !.env.hidden = ~@])

Intersection(isIntersecting) ==
  /\ observing(World)
  /\ Commit(handleIntersection(World, isIntersecting))

\* the reduced-motion preference flips
MotionChange ==
  /\ env.mediaReduced \in BOOLEAN
  /\ Commit(dispatch("change", subs.media, [World EXCEPT !.env.mediaReduced = ~@]))

\* the resize observer reports: the debounce timer is set anew
ResizeObserved ==
  /\ observing(World)
  /\ Commit([World EXCEPT !.timers.resize = TRUE])

ResizeTimeout ==
  /\ timers.resize
  /\ Len(raf) < MaxPending
  /\ Commit(handleResize([World EXCEPT !.timers.resize = FALSE]))

\* the mutation observer reports a child-list change of the content block
ContentMutation ==
  /\ observing(World)
  /\ initCalls(World) < MaxInits
  /\ Commit(reinitialize(World))

\* env.drags counts the pointer-downs the page has seen
PointerDown(x, onInteractive) ==
  /\ subs.pointer
  /\ env.drags < MaxDrags
  /\ Commit(handlePointerDown([World EXCEPT !.env.drags = @ + 1], x, onInteractive))

PointerMove(x) ==
  /\ subs.pointer
  /\ withinCap(handlePointerMove(World, x))
  /\ Commit(handlePointerMove(World, x))

PointerUp ==
  /\ subs.pointer
  /\ Commit(handlePointerUp(World))

\* the 16 ms timer of throttle()
ThrottleTimeout ==
  /\ timers.inThrottle
  /\ Commit([World EXCEPT !.timers.inThrottle = FALSE])

ResumeTimeout ==
  /\ timers.resume > 0
  /\ Commit(resumeTimeout([World EXCEPT !.timers.resume = @ - 1]))

----------------------------------------------------------------------------
(* Spec: the lifecycle of an element without drag (data-drag-enabled="false") *)

LifeFrameTimes == {0, 40}

Init ==
  /\ \E autoplay \in BOOLEAN : Page(Attrs(autoplay, TRUE, FALSE, "left"), "ltr", 1, 0, 0)
  /\ header = headerBefore(TRUE)

Next ==
  \/ InitCarousel
  \/ DestroyCarousel
  \/ InstanceDestroy
  \/ PlayThenPause
  \/ UpdateConfig
  \/ InitContinue
  \/ ReinitTimeout
  \/ \E e \in LifeFrameTimes : Frame(e)
  \/ HoverEnter
  \/ HoverLeave
  \/ VisibilityChange
  \/ \E b \in BOOLEAN : Intersection(b)
  \/ MotionChange
  \/ ResizeObserved
  \/ ResizeTimeout
  \/ ContentMutation

Spec == Init /\ [][Next]_vars

----------------------------------------------------------------------------
(* SpecDrag: pointer drags and momentum on an element without autoplay *)

DragFrameTimes == {16}

InitDrag ==
  /\ Page(Attrs(FALSE, FALSE, TRUE, "left"), "ltr", 2, 14, 0)
  /\ header = headerBefore(TRUE)

NextDrag ==
  \/ InitCarousel
  \/ InitContinue
  \/ DestroyCarousel
  \/ \E e \in DragFrameTimes : Frame(e)
  \/ \E x \in PointerXs, onInteractive \in BOOLEAN : PointerDown(x, onInteractive)
  \/ \E x \in PointerXs : PointerMove(x)
  \/ PointerUp
  \/ ThrottleTimeout
  \/ ResumeTimeout

SpecDrag == InitDrag /\ [][NextDrag]_vars

----------------------------------------------------------------------------
(* SpecLoop: autoplay, one drag and its momentum together *)

LoopFrameTimes == {40}

InitLoop ==
  /\ Page(Attrs(TRUE, FALSE, TRUE, "left"), "ltr", 2, 14, MaxDrags - 1)
  /\ header = headerBefore(TRUE)

NextLoop ==
  \/ InitCarousel
  \/ InitContinue
  \/ \E b \in BOOLEAN : Intersection(b)
  \/ \E e \in LoopFrameTimes : Frame(e)
  \/ \E x \in PointerXs, onInteractive \in BOOLEAN : PointerDown(x, onInteractive)
  \/ \E x \in PointerXs : PointerMove(x)
  \/ PointerUp
  \/ ThrottleTimeout
  \/ ResumeTimeout

SpecLoop == InitLoop /\ [][NextLoop]_vars

----------------------------------------------------------------------------
(* SpecAutoplay: autoplay frames only, for each direction and text direction *)

AutoFrameTimes == {0, 16, 40}

InitAutoplay ==
  \E direction \in {"left", "right"}, dir \in {"ltr", "rtl"} :
    /\ Page(Attrs(TRUE, FALSE, FALSE, direction), dir, 2, 14, 0)
    /\ header = headerBefore(TRUE)

NextAutoplay ==
  \/ InitCarousel
  \/ InitContinue
  \/ \E b \in BOOLEAN : Intersection(b)
  \/ \E e \in AutoFrameTimes : Frame(e)

SpecAutoplay == InitAutoplay /\ [][NextAutoplay]_vars

----------------------------------------------------------------------------
(* SpecEditor: the registry under the theme editor's section events, for an *)
(* element with or without its required markup                              *)

\* shopify:section:load, then the frame callback that calls initAll(e.target);
\* env.loads counts these events
SectionLoad ==
  /\ life = "absent" \/ instances
  /\ env.loads < MaxLoads
  /\ Commit(initAll([World EXCEPT !.env.loads = @ + 1]))

\* shopify:section:unload
SectionUnload ==
  /\ life # "absent"
  /\ Commit(destroyAll(World))

SectionSelect ==
  /\ life # "absent"
  /\ Commit(sectionSelect(World))

SectionDeselect ==
  /\ life # "absent"
  /\ Commit(sectionDeselect(World))

EditorFrameTimes == {40}

InitEditor ==
  /\ \E markup \in BOOLEAN :
       Before([Element(Attrs(TRUE, TRUE, FALSE, "left"), "ltr", 1, 0, 0)
                 EXCEPT !.markup = markup])
  /\ header = headerBefore(TRUE)

NextEditor ==
  \/ InitCarousel
  \/ SectionLoad
  \/ DestroyCarousel
  \/ SectionUnload
  \/ SectionSelect
  \/ SectionDeselect
  \/ InitContinue
  \/ ContentMutation
  \/ ReinitTimeout
  \/ \E b \in BOOLEAN : Intersection(b)
  \/ \E e \in EditorFrameTimes : Frame(e)

SpecEditor == InitEditor /\ [][NextEditor]_vars

----------------------------------------------------------------------------
(* SpecError: initializations that throw, first ones and reinitializations *)

FailSteps == {"setupStructure", "setupObservers", "loadImages"}

InitFails(step) ==
  /\ timers.initPending > 0
  /\ timers.imageWaits = {}
  /\ Commit(initFail(World, step))

ErrorFrameTimes == {40}

InitError ==
  /\ Page(Attrs(TRUE, TRUE, FALSE, "left"), "ltr", 1, 0, 0)
  /\ header = headerBefore(TRUE)

NextError ==
  \/ InitCarousel
  \/ InitContinue
  \/ \E step \in FailSteps : InitFails(step)
  \/ ContentMutation
  \/ ReinitTimeout
  \/ HoverEnter
  \/ HoverLeave
  \/ \E b \in BOOLEAN : Intersection(b)
  \/ \E e \in ErrorFrameTimes : Frame(e)

SpecError == InitError /\ [][NextError]_vars

----------------------------------------------------------------------------
(* SpecImages: an initialization with the eager image strategy; an image may *)
(* load, fail, or do neither                                                 *)

\* the browser finishes loading image i and fires its load event
ImageLoad(i) ==
  /\ env.images[i] = "loading"
  /\ Commit(imageSettled([World EXCEPT !.env.images[i] = "complete"], i))

\* the browser gives up on image i and fires its error event
ImageError(i) ==
  /\ env.images[i] = "loading"
  /\ Commit(imageSettled([World EXCEPT !.env.images[i] = "broken"], i))

ImageTimeout(i) ==
  /\ i \in timers.imageWaits
  /\ Commit(imageTimeout(World, i))

ImageFrameTimes == {40}

InitImages ==
  /\ \E images \in [1..NumImages -> {"loading", "complete"}] :
       Before([Element([Attrs(TRUE, TRUE, FALSE, "left") EXCEPT !.imageStrategy = "eager"],
                       "ltr", 1, 0, 0)
                 EXCEPT !.images = images])
  /\ header = headerBefore(TRUE)

NextImages ==
  \/ InitCarousel
  \/ \E i \in 1..NumImages : ImageLoad(i)
  \/ \E i \in 1..NumImages : ImageError(i)
  \/ \E i \in 1..NumImages : ImageTimeout(i)
  \/ InitContinue
  \/ \E step \in FailSteps : InitFails(step)
  \/ HoverEnter
  \/ HoverLeave
  \/ \E b \in BOOLEAN : Intersection(b)
  \/ \E e \in ImageFrameTimes : Frame(e)

\* timers fire, and the continuation of an await whose promise has resolved runs
SpecImages ==
  /\ InitImages
  /\ [][NextImages]_vars
  /\ \A i \in 1..NumImages : WF_vars(ImageTimeout(i))
  /\ WF_vars(InitContinue \/ \E step \in FailSteps : InitFails(step))

----------------------------------------------------------------------------
(* SpecKeys: keyboard and control navigation while the content's children   *)
(* change                                                                   *)

Keys == {"ArrowLeft", "ArrowRight", " ", "Home", "End", "Tab"}

Controls == {"prev", "next", "play-pause"}

KeyDown(key) ==
  /\ subs.keydown
  /\ Commit(handleKeyDown(World, key))

\* a click on a control button reaches every listener copy the inits added
ControlClick(button) ==
  /\ subs.controls > 0
  /\ Commit(dispatch(button, subs.controls, World))

\* the content block gets or loses children, n are left: the mutation
\* observer's callback reinitializes
ChildrenChange(n) ==
  /\ observing(World)
  /\ initCalls(World) < MaxInits
  /\ n # env.children
  /\ Commit(reinitialize([World EXCEPT !.env.children = n]))

KeysFrameTimes == {40}

\* data-scroll-speed is SlowSpeed seconds a cycle: in the model's fixed point
\* the velocity is zero and the offset stays where it is
InitKeys ==
  /\ Page([Attrs(TRUE, FALSE, FALSE, "left") EXCEPT !.scrollSpeed = SlowSpeed],
          "ltr", MaxSlides, 0, 0)
  /\ header = headerBefore(TRUE)

NextKeys ==
  \/ InitCarousel
  \/ InitContinue
  \/ ReinitTimeout
  \/ \E key \in Keys : KeyDown(key)
  \/ \E button \in Controls : ControlClick(button)
  \/ \E n \in 1..MaxSlides : ChildrenChange(n)
  \/ ContentMutation
  \/ \E e \in KeysFrameTimes : Frame(e)

SpecKeys == InitKeys /\ [][NextKeys]_vars

----------------------------------------------------------------------------
(* SpecMutation: the content's children change while the mutation observer  *)
(* is connected and while it is not                                         *)

\* the content block gets or loses children while no mutation observer of the
\* instance is connected: no callback runs
ChildrenChangeUnseen(n) ==
  /\ life = "live"
  /\ ~observing(World)
  /\ n # env.children
  /\ Commit([World EXCEPT !.env.children = n])

MutationFrameTimes == {40}

InitMutation ==
  /\ Page([Attrs(TRUE, FALSE, FALSE, "left") EXCEPT !.scrollSpeed = SlowSpeed],
          "ltr", MaxSlides, 0, 0)
  /\ header = headerBefore(TRUE)

NextMutation ==
  \/ InitCarousel
  \/ InitContinue
  \/ ReinitTimeout
  \/ \E n \in 0..MaxSlides : ChildrenChange(n)
  \/ \E n \in 0..MaxSlides : ChildrenChangeUnseen(n)
  \/ \E b \in BOOLEAN : Intersection(b)
  \/ \E e \in MutationFrameTimes : Frame(e)

\* timers fire, and the continuation of an await whose promise has resolved runs
SpecMutation ==
  /\ InitMutation
  /\ [][NextMutation]_vars
  /\ WF_vars(ReinitTimeout)
  /\ WF_vars(InitContinue)

----------------------------------------------------------------------------
(* SpecHeader: the header while the page scrolls and the wrapper resizes *)

\* DOMContentLoaded: the listeners are added and updateState() runs once
HeaderLoaded ==
  /\ ~header.loaded
  /\ header' = updateState([header EXCEPT !.loaded = TRUE])
  /\ UNCHANGED carousel

\* a scroll event, after the page has scrolled to y
Scroll(y) ==
  /\ y # header.scrollY
  /\ header' = LET h == [header EXCEPT !.scrollY = y]
               IN IF h.loaded THEN onScrollOrResize(h) ELSE h
  /\ UNCHANGED carousel

\* a resize event, after which the wrapper is height rows high
HeaderResize(height) ==
  /\ height # header.height
  /\ header' = LET h == [header EXCEPT !.height = height]
               IN IF h.loaded THEN onScrollOrResize(h) ELSE h
  /\ UNCHANGED carousel

\* the frame callback that onScrollOrResize requested
HeaderFrame ==
  /\ header.pending > 0
  /\ header' = updateState([header EXCEPT !.pending = @ - 1])
  /\ UNCHANGED carousel

InitHeader ==
  \E hero \in BOOLEAN :
    /\ Page(Attrs(TRUE, TRUE, FALSE, "left"), "ltr", 1, 0, 0)
    /\ header = headerBefore(hero)

NextHeader ==
  \/ HeaderLoaded
  \/ \E y \in 0..MaxScroll : Scroll(y)
  \/ \E height \in HeaderHeight..MaxHeaderHeight : HeaderResize(height)
  \/ HeaderFrame

SpecHeader == InitHeader /\ [][NextHeader]_vars

\* the browser runs a requested frame callback at its next display frame
SpecHeaderFair == SpecHeader /\ WF_vars(HeaderFrame)

----------------------------------------------------------------------------
(* Properties *)

emitted(name) == \E i \in 1..Len(signals) : signals[i] = name

pendingOf(kinds) == {i \in 1..Len(raf) : raf[i].kind \in kinds}

\* the world with an empty log, as a task finds it
Quiet(w) == [w EXCEPT !.signals = <<>>]

\* listeners and observers through which the page can still call the instance
subscriptions(w) ==
  w.subs.hover + w.subs.media + w.subs.leaked + w.subs.controls
    + (IF w.subs.keydown THEN 1 ELSE 0)
    + (IF w.subs.pointer THEN 1 ELSE 0) + (IF w.subs.doc THEN 1 ELSE 0)
    + (IF w.subs.observers = "connected" THEN 1 ELSE 0)

\* C1: in every reachable state, after any autoplay frames, drags and momentum
\* frames, the offset is within one wrap period of zero:
\* |offset| < baseWidth + the active gap (stated for the states in which the
\* content's width has been measured, so that the wrap period is the content's)
C1_OffsetWithinWrapPeriod ==
  (life # "absent" /\ state.baseWidth > 0) => Abs(state.offset) < wrapPoint(World)

\* C2: with autoplay frames only, for each direction, each text direction and
\* each non-negative elapsed time, the offset that animate() leaves satisfies
\* 0 <= |offset| < wrapDistance
C2_AutoplayOffsetWrapped ==
  /\ Abs(state.offset) >= 0
  /\ Abs(state.offset) < wrapPoint(World)

\* C3: at most one frame callback that advances the offset (an animate callback
\* or a momentum callback) is pending at any time
C3_OneOffsetLoop ==
  Cardinality(pendingOf({"animate", "momentum"})) <= 1

\* C4: play() and then pause() with no frame in between leave animationId null
\* and no animate callback pending, and a further pause() changes nothing and
\* emits no signal
C4_PlayPauseLeavesNoFrame ==
  /\ life # "absent" =>
       LET w == pause(play(World))
       IN /\ w.state.animationId = Null
          /\ \A i \in 1..Len(w.raf) : w.raf[i].kind # "animate"
          /\ pause(Quiet(w)) = Quiet(w)
  /\ signals = <<"play", "pause">> =>
       /\ state.animationId = Null
       /\ pendingOf({"animate"}) = {}
       /\ ~state.playing

\* C4's case: play() started the loop and pause() followed in the same task
C4_Witness ==
  /\ signals = <<"play", "pause">>
  /\ life = "live"
  /\ state.initialized
  /\ pendingOf({"animate"}) = {}

\* C5: whenever an initialized instance has state.playing = TRUE, an animate
\* frame callback is pending; so the loop runs once the first initialization
\* completes with autoplay on and reduced motion off
C5_PlayingImpliesLoop ==
  (life = "live" /\ state.initialized /\ state.playing)
    => pendingOf({"animate"}) # {}

\* C6: when destroy() returns, no frame callback of the instance is pending:
\* no animate, no momentum and no measureDimensions callback
C6_DestroyLeavesNoFrame ==
  emitted("destroy") => raf = <<>>

\* C7: when destroy() returns, no observer and no listener that the instance
\* ever created is left connected
C7_DestroyDisconnectsAll ==
  (life = "destroyed" /\ emitted("destroy")) => subscriptions(World) = 0

\* C8: a second destroy, by destroy(element) or by instance.destroy(), changes
\* no state and emits no destroy signal
C8_SecondDestroyIsNoOp ==
  life = "destroyed" =>
    /\ destroyCarousel(World) = World
    /\ destroy(World, TRUE) = World

C10_MomentumDecaysAndStops ==
  /\ \A i \in pendingOf({"momentum"}) :
       /\ Abs(raf[i].m) < Abs(raf[i].prev)
       /\ raf[i].n <= MaxMomentumFrames
       /\ Abs(raf[i].m) < MilliPx \div 10
            => momentumAnimation(World, raf[i].m, raf[i].n) = World
  /\ (state.dragging /\ Abs(state.lastX - state.startX) > DragThreshold) =>
       Len(handlePointerUp(World).raf) = Len(raf) + 1

\* C10's case: a momentum sequence of many frames has come below 0.1 pixel and
\* its last callback is pending
C10_Witness ==
  \E i \in pendingOf({"momentum"}) :
    /\ Abs(raf[i].m) < MilliPx \div 10
    /\ Abs(raf[i].prev) >= MilliPx \div 10
    /\ raf[i].n > FrameRateFloor

\* the world after the reduced-motion preference has become matches
motionChanged(w, matches) ==
  dispatch("change", w.subs.media, [w EXCEPT !.env.mediaReduced = matches])

animatePending(w) == \E i \in 1..Len(w.raf) : w.raf[i].kind = "animate"

\* C11: when the reduced-motion preference turns on while state.playing holds,
\* the instance is in static mode, playing is false and no animate callback is
\* pending; when it then turns off with autoplay enabled, playing is true and
\* an animate callback is pending again.  While the preference is on and the
\* instance is in static mode, no loop runs
C11_ReducedMotionStopsAndRestarts ==
  /\ (subs.media > 0 /\ ~env.mediaReduced /\ state.playing) =>
       LET on  == motionChanged(World, TRUE)
           off == motionChanged(on, FALSE)
       IN /\ ~on.state.playing
          /\ ~animatePending(on)
          /\ on.state.animationId = Null
          /\ "rbc-static-mode" \in on.dom.classes
          /\ on.config.autoplay =>
               /\ off.state.playing
               /\ animatePending(off)
               /\ "rbc-static-mode" \notin off.dom.classes
  /\ (config.reducedMotion /\ "rbc-static-mode" \in dom.classes) =>
       ~state.playing /\ ~animatePending(World)

\* C11's case: the preference went on and has just gone off again, and play()
\* restarted the loop (the element not being in view, no resume() could have)
C11_Witness ==
  /\ signals = <<"play">>
  /\ life = "live"
  /\ ~env.mediaReduced /\ ~config.reducedMotion
  /\ ~state.visible
  /\ state.playing
  /\ animatePending(World)

\* C12: in no reachable state does the frame loop run (playing, with an animate
\* callback pending) while the last intersection report is false or the tab is
\* hidden
C12_LoopOnlyWhenVisible ==
  (state.playing /\ animatePending(World)) => (state.visible /\ ~env.hidden)

\* C19: once destroy() has run and no init() is pending or has run since, no
\* animate callback is pending: destroy() cancelled the one there was, so a
\* pending one was scheduled by a later event
C19_DestroyedIsTerminal ==
  (life = "destroyed" /\ timers.reinit = 0 /\ timers.initPending = 0
     /\ "rbc-ready" \notin dom.classes)
    => ~animatePending(World)

\* C13: after a measurement the overlap flag is true iff a hero exists and
\* hero.top < header.bottom and hero.bottom > header.top; the wrapper is
\* transparent and the root carries header-overlap when it is true, the wrapper
\* is solid and the root does not when it is false; once measured, exactly one
\* of transparent and solid is set
C13_OverlapFlagMatchesGeometry ==
  LET h == updateState(header)
      expected(g) == /\ g.hero
                     /\ HeroPageTop - g.scrollY < g.height
                     /\ HeroPageTop - g.scrollY + HeroHeight > 0
  IN /\ h.overlap = expected(header)
     /\ h.transparent = h.overlap
     /\ h.solid = ~h.overlap
     /\ header.loaded => /\ header.transparent # header.solid
                         /\ header.overlap = header.transparent
     /\ (header.loaded /\ header.rafId = Null) => header.overlap = expected(header)

\* C13's case: a measurement found the hero touching the header's bottom edge
\* from below, which is no overlap: the wrapper is solid
C13_Witness ==
  /\ header.loaded /\ header.hero /\ header.rafId = Null
  /\ HeroPageTop - header.scrollY = header.height
  /\ header.solid /\ ~header.transparent /\ ~header.overlap

\* C14: initializing an element that is registered returns the registered
\* instance and constructs nothing, by init(element), by initAll() and by the
\* editor's section-load event: at most one instance is ever constructed for
\* the element while it is registered
C14_InitIsIdempotent ==
  /\ env.constructed <= 1
  /\ instances =>
       /\ initCarousel(World) = World
       /\ initAll(World) = World

\* C14's case: the section was loaded MaxLoads times and the element still has
\* the one instance it got first, which has not become ready yet
C14_Witness ==
  /\ env.loads = MaxLoads
  /\ env.constructed = 1
  /\ instances
  /\ env.markup
  /\ "rbc-ready" \notin dom.classes

\* C15: destroyAll(root) destroys the element's registered instance and removes
\* it from the registry, in whatever lifecycle state it is (for an element with
\* its markup: initializing, ready, waiting for a reinitialize)
C15_DestroyAllRemovesEvery ==
  (instances /\ env.markup) => ~destroyAll(World).instances

\* C16: for an element without its required markup, no operation raises to the
\* host page: neither init, nor destroy, nor the section select and deselect
\* hooks
C16_InertNeverRaises ==
  ~env.markup =>
    /\ ~emitted("TypeError")
    /\ ~\E i \in 1..Len(destroyCarousel(World).signals) :
          destroyCarousel(World).signals[i] = "TypeError"

\* the init() that completed last threw: init() sets rbc-initializing, only its
\* success removes it
inError(w) ==
  /\ "rbc-error" \in w.dom.classes
  /\ "rbc-initializing" \in w.dom.classes
  /\ w.timers.initPending = 0
  /\ w.timers.reinit = 0

\* C17: when a step of init() throws, the instance carries the error class, one
\* error signal is emitted and nothing is raised, and from then until an
\* initialization succeeds no animation loop runs on the instance
C17_FailedInitLeavesNoLoop ==
  /\ emitted("error") => (signals = <<"error">> /\ "rbc-error" \in dom.classes)
  /\ inError(World) => ~animatePending(World)

\* C18: every started init() reaches the ready state or the error state, also
\* when an image it waits for neither loads nor fails: the 3000 ms timer ends
\* the wait
C18_InitNeverStalls ==
  (timers.initPending > 0)
    ~> ("rbc-ready" \in dom.classes \/ "rbc-error" \in dom.classes)

\* C18's case: the instance is ready while an image it waited for is still
\* loading
C18_Witness ==
  /\ "rbc-ready" \in dom.classes
  /\ state.initialized
  /\ config.imageStrategy = "eager"
  /\ \E i \in 1..Len(env.images) : env.images[i] = "loading"

\* C20: in every reachable state with N >= 1 slides, the current slide index
\* is a valid index: 0 <= currentSlideIndex <= N - 1
C20_SlideIndexValid ==
  (life # "absent" /\ state.slides >= 1) =>
    /\ 0 <= state.currentSlideIndex
    /\ state.currentSlideIndex <= state.slides - 1

\* C21: one activation of prev or next (an arrow key, or one click on the
\* control button) moves the current slide index by one step, clamped to
\* 0..N-1, also after reinitializations (stated from the states in which the
\* index is valid)
C21_OneStepPerActivation ==
  LET i    == state.currentSlideIndex
      last == state.slides - 1
      at(w) == w.state.currentSlideIndex
  IN (life = "live" /\ state.slides >= 1 /\ 0 <= i /\ i <= last) =>
       /\ subs.keydown =>
            /\ at(handleKeyDown(World, "ArrowRight")) = clamp(i + 1, 0, last)
            /\ at(handleKeyDown(World, "ArrowLeft")) = clamp(i - 1, 0, last)
       /\ subs.controls > 0 =>
            /\ at(dispatch("next", subs.controls, World)) = clamp(i + 1, 0, last)
            /\ at(dispatch("prev", subs.controls, World)) = clamp(i - 1, 0, last)

\* C22: while state.dragging is true the autoplay loop does not run: playing is
\* false or no animate callback is pending, so no autoplay frame advances the
\* offset between pointer-down and pointer-up
C22_NoAutoplayWhileDragging ==
  state.dragging => ~(state.playing /\ animatePending(World))

\* the flags are those of the current geometry
measured(h) ==
  h.overlap = (/\ h.hero
               /\ heroRect(h).top < headerRect(h).bottom
               /\ heroRect(h).bottom > headerRect(h).top)

\* C23: at most one updateState callback is pending whatever the number of
\* scroll and resize events, a requested measurement runs, and whenever the
\* flags are not those of the current geometry a measurement follows that makes
\* them so with no callback left pending
C23_MeasurementThrottledNeverLost ==
  /\ [](header.pending <= 1)
  /\ [](header.loaded => (header.pending = 1 <=> header.rafId # Null))
  /\ (header.pending = 1) ~> (header.pending = 0)
  /\ (header.loaded /\ ~measured(header))
       ~> (measured(header) /\ header.pending = 0)

\* C23's case: scroll or resize events have changed the overlap since the last
\* measurement and one callback is pending for them
C23_Witness ==
  /\ header.loaded
  /\ ~measured(header)
  /\ header.pending = 1
  /\ header.scrollY > 0
  /\ header.height = MaxHeaderHeight

\* no init() is pending or waits for the reinitialize timer
settled(w) == w.timers.initPending = 0 /\ w.timers.reinit = 0

\* C24: while the instance is ready the track holds cloneCount clone groups
\* (none without slides), and once destroy() has run, with no init() since, the
\* track holds no clone group, also after a debounced resize that was pending
\* at destroy time
C24_ClonesFollowLifecycle ==
  /\ (life = "live" /\ settled(World) /\ "rbc-ready" \in dom.classes) =>
       dom.attached = (IF state.slides = 0 THEN 0 ELSE state.cloneCount)
  /\ (life = "destroyed" /\ settled(World) /\ "rbc-ready" \notin dom.classes) =>
       dom.attached = 0

\* C25: whenever state.slides differs from the content block's children, the
\* instance comes to be ready with state.slides equal to the children, whether
\* the change was made with the mutation observer connected or in the window
\* in which it is disconnected
C25_ChildrenChangeReflected ==
  (life = "live" /\ state.slides # env.children)
    ~> (/\ "rbc-ready" \in dom.classes
        /\ settled(World)
        /\ state.slides = env.children)

\* C25's case: the children changed, the instance has reinitialized and is
\* ready with the slides that are there now
C25_Witness ==
  /\ life = "live"
  /\ "rbc-ready" \in dom.classes
  /\ settled(World)
  /\ subs.media = MaxInits
  /\ env.children # MaxSlides
  /\ state.slides = env.children

=============================================================================
